---------------------------- MODULE Spec2Model ----------------------------
(* A model of EspAsyncOta (src/src/espasyncota.cpp, src/src/espasyncota.h).  *)
(*                                                                         *)
(* Two execution contexts share one FreeRTOS event group (the flag set):   *)
(* the caller's context, which runs the public methods startTask, endTask, *)
(* status, trigger, abort, update and setTotalSize one after the other,    *)
(* and the OTA task created by startTask, which runs otaTask().  Every     *)
(* event group call (getBits, setBits, clearBits, waitBits) is atomic;     *)
(* nothing else is, so                                                     *)
(* both contexts are cut into steps at their event group calls and the     *)
(* steps interleave freely.                                                *)
EXTENDS Integers, FiniteSets, Sequences, TLC

(* ------------------------------ bounds -------------------------------- *)
\* the clock runs from 0 to MaxTime
MaxTime == 6
\* esp_https_ota_perform() reports IN_PROGRESS at most MaxChunks times per job
MaxChunks == 1
\* trigger() is accepted at most MaxJobs times
MaxJobs == 2

(* ------------------------- program constants -------------------------- *)
\* update(): espchrono::ago(*m_finishedTs) > 5s
SettleDelay == 5

TASK_RUNNING_BIT == "TASK_RUNNING"
START_REQUEST_BIT == "START_REQUEST"
REQUEST_RUNNING_BIT == "REQUEST_RUNNING"
REQUEST_VERIFYING_BIT == "REQUEST_VERIFYING"
REQUEST_FINISHED_BIT == "REQUEST_FINISHED"
REQUEST_SUCCEEDED_BIT == "REQUEST_SUCCEEDED"
END_TASK_BIT == "END_TASK"
TASK_ENDED_BIT == "TASK_ENDED"
ABORT_REQUEST_BIT == "ABORT_REQUEST"

AllBits ==
    {TASK_RUNNING_BIT, START_REQUEST_BIT, REQUEST_RUNNING_BIT, REQUEST_VERIFYING_BIT,
     REQUEST_FINISHED_BIT, REQUEST_SUCCEEDED_BIT, END_TASK_BIT, TASK_ENDED_BIT,
     ABORT_REQUEST_BIT}

\* OtaCloudUpdateStatusValues
OtaCloudUpdateStatus ==
    {"Idle", "Updating", "Failed", "Succeeded", "NotReady", "Verifying"}

\* std::optional<T>: the empty set is std::nullopt, {v} holds v
nullopt == {}

(* ------------------------------ inputs -------------------------------- *)
\* the arguments trigger() is called with
TriggerArgs ==
    { [url |-> "", cert_pem |-> "", use_global_ca |-> TRUE,
       client_key |-> "", client_cert |-> ""],
      [url |-> "not a url", cert_pem |-> "", use_global_ca |-> TRUE,
       client_key |-> "", client_cert |-> ""],
      [url |-> "https://example/fw.bin", cert_pem |-> "", use_global_ca |-> TRUE,
       client_key |-> "", client_cert |-> ""],
      [url |-> "https://example/fw2.bin", cert_pem |-> "PEM", use_global_ca |-> FALSE,
       client_key |-> "KEY", client_cert |-> "CRT"] }

\* esphttpdutils::urlverify(url): the external URL verification
urlverify(url) == url \in {"https://example/fw.bin", "https://example/fw2.bin"}

\* the results of the transfer engine's phase calls
BeginResults == {"ESP_OK", "ESP_OK_NULL_HANDLE", "ESP_FAIL"}
DescResults == {"ESP_OK", "ESP_FAIL"}
ImageSizes == {-1, 0, 4}
PerformResults == {"ESP_ERR_HTTPS_OTA_IN_PROGRESS", "ESP_OK", "ESP_FAIL"}
FinishResults == {"ESP_OK", "ESP_FAIL"}

\* the arguments setTotalSize() is called with: a non-positive value, which
\* the OTA task never stores, and a positive one
TotalSizeArgs == {-3, 4}

VARIABLES
    flags,            \* m_eventGroup: the set of bits that are set
    m_taskHandle,     \* TRUE when m_taskHandle is not NULL
    m_progress, m_totalSize, m_message, m_appDesc,
    m_finishedTs,
    m_url, m_cert_pem, m_use_global_ca, m_client_key, m_client_cert,
    now,              \* espchrono::millis_clock::now(), in seconds
    wpc,              \* the OTA task's position in otaTask()
    aborted, ota_perform_err,   \* locals of otaTask()
    cpc,              \* the caller's position inside the method it runs
    cop,              \* the public method the caller is in
    cargs,            \* the arguments of the trigger() call in progress
    ret,              \* the method that returned last, and what it returned
    device,           \* "running", "restarted" (esp_restart) or "aborted" (assert)
    assertsEnabled,   \* whether the build compiles assert() in: "yes", "no", or
                      \* "either" as long as no assertion has failed yet
    jobs,             \* history: the number of trigger() calls accepted
    jobOpen,          \* history: a trigger() was accepted and update() has not
                      \* recycled REQUEST_FINISHED since
    abortOk,          \* history: abort() returned success for the job in flight
    abortStale,       \* history: ABORT_REQUEST is set, and has been since before
                      \* a trigger() that was accepted while the OTA task waited
                      \* for a job
    restartTs,        \* history: the m_finishedTs the restart decision was taken on
    outcome           \* history: how the job the OTA task ran last ended

vars ==
    <<flags, m_taskHandle, m_progress, m_totalSize, m_message, m_appDesc,
      m_finishedTs, m_url, m_cert_pem, m_use_global_ca, m_client_key, m_client_cert,
      now, wpc, aborted, ota_perform_err, cpc, cop, cargs, ret, device,
      assertsEnabled, jobs, jobOpen, abortOk, abortStale, restartTs, outcome>>

params == <<m_url, m_cert_pem, m_use_global_ca, m_client_key, m_client_cert>>
progressVars == <<m_progress, m_totalSize, m_message, m_appDesc>>
workerVars == <<wpc, aborted, ota_perform_err>>
callerVars == <<cpc, cop, cargs, ret>>
history == <<jobs, jobOpen, abortOk, abortStale, restartTs, outcome>>

NoArgs == [url |-> "", cert_pem |-> "", use_global_ca |-> FALSE,
           client_key |-> "", client_cert |-> ""]

(* --------------------------- the event group --------------------------- *)
setBits(bits) == flags \cup bits
clearBits(bits) == flags \ bits
JobBits == {START_REQUEST_BIT, REQUEST_RUNNING_BIT}

\* espchrono::ago(ts)
ago(ts) == now - ts

\* the members' initializers, and the history before any call
InitMembers ==
    /\ m_taskHandle = FALSE
    /\ m_progress = 0
    /\ m_totalSize = nullopt
    /\ m_message = ""
    /\ m_appDesc = nullopt
    /\ m_finishedTs = nullopt
    /\ m_url = ""
    /\ m_cert_pem = ""
    /\ m_use_global_ca \in BOOLEAN   \* no initializer (espasyncota.h:68): indeterminate
    /\ m_client_key = ""
    /\ m_client_cert = ""
    /\ now = 0
    /\ wpc = "none"
    /\ aborted = FALSE
    /\ ota_perform_err = "ESP_OK"
    /\ cpc = "idle"
    /\ cop = "none"
    /\ cargs = NoArgs
    /\ ret = [op |-> "none", val |-> "none"]
    /\ device = "running"
    /\ assertsEnabled = "either"
    /\ jobs = 0
    /\ jobOpen = FALSE
    /\ abortOk = FALSE
    /\ abortStale = FALSE
    /\ restartTs = nullopt
    /\ outcome = "none"

\* the state after the constructor: a fresh event group has no bit set
Init == flags = {} /\ InitMembers


Running == device = "running"

(* ------------------------- the OTA task, otaTask() --------------------- *)
\* line 288: m_eventGroup.setBits(TASK_RUNNING_BIT)
WorkerStart ==
    /\ Running /\ wpc = "w288"
    /\ flags' = setBits({TASK_RUNNING_BIT})
    /\ wpc' = "w293"
    /\ UNCHANGED <<m_taskHandle, progressVars, m_finishedTs, params, now, aborted,
                   ota_perform_err, callerVars, device, assertsEnabled, history>>

\* lines 293-295: waitBits(START_REQUEST_BIT, true, true, portMAX_DELAY) blocks
\* until START_REQUEST_BIT is set and clears it on exit
WorkerWait ==
    /\ Running /\ wpc = "w293"
    /\ START_REQUEST_BIT \in flags
    /\ flags' = clearBits({START_REQUEST_BIT})
    /\ wpc' = "w299"
    /\ UNCHANGED <<m_taskHandle, progressVars, m_finishedTs, params, now, aborted,
                   ota_perform_err, callerVars, device, assertsEnabled, history>>

\* lines 300-304: the bits the OTA task asserts to be clear
WorkerAssertBits ==
    {START_REQUEST_BIT, REQUEST_RUNNING_BIT, REQUEST_VERIFYING_BIT,
     REQUEST_FINISHED_BIT, REQUEST_SUCCEEDED_BIT}

\* the builds a failing assert() can be running in: with assertions compiled
\* in it aborts the program, with NDEBUG it is no code at all
BuildAsserts == IF assertsEnabled = "either" THEN {"yes", "no"} ELSE {assertsEnabled}

\* lines 298-305: getBits() and the five assertions
WorkerAssert ==
    /\ Running /\ wpc = "w299"
    /\ IF flags \cap WorkerAssertBits # {}
       THEN \E enabled \in BuildAsserts :
               /\ assertsEnabled' = enabled
               /\ IF enabled = "yes"
                  THEN device' = "aborted" /\ wpc' = wpc
                  ELSE device' = device /\ wpc' = "w307"
       ELSE UNCHANGED <<device, assertsEnabled>> /\ wpc' = "w307"
    /\ UNCHANGED <<flags, m_taskHandle, progressVars, m_finishedTs, params, now,
                   aborted, ota_perform_err, callerVars, history>>

\* lines 307-309: m_progress = 0; setBits(REQUEST_RUNNING_BIT)
WorkerSetRunning ==
    /\ Running /\ wpc = "w307"
    /\ m_progress' = 0
    /\ flags' = setBits({REQUEST_RUNNING_BIT})
    /\ wpc' = "w352"
    /\ UNCHANGED <<m_taskHandle, m_totalSize, m_message, m_appDesc, m_finishedTs,
                   params, now, aborted, ota_perform_err, callerVars, device,
                   assertsEnabled, history>>

\* lines 351-368: esp_https_ota_begin(); a failure or a NULL handle leaves the job
\* (continue runs helper2's cleanup)
WorkerBegin ==
    /\ Running /\ wpc = "w352"
    /\ \E result \in BeginResults :
          CASE result = "ESP_FAIL" ->
                  /\ m_message' = "esp_https_ota_begin() failed"
                  /\ wpc' = "w312"
                  /\ outcome' = "failed"
            [] result = "ESP_OK_NULL_HANDLE" ->
                  /\ m_message' = "ota handle invalid"
                  /\ wpc' = "w312"
                  /\ outcome' = "failed"
            [] OTHER ->
                  /\ m_message' = m_message
                  /\ wpc' = "w373"
                  /\ outcome' = outcome
    /\ UNCHANGED <<flags, m_taskHandle, m_progress, m_totalSize, m_appDesc,
                   m_finishedTs, params, now, aborted, ota_perform_err, callerVars,
                   device, assertsEnabled, jobs, jobOpen, abortOk, abortStale,
                   restartTs>>

\* lines 370-379: esp_https_ota_get_img_desc()
WorkerDescribe ==
    /\ Running /\ wpc = "w373"
    /\ \E result \in DescResults :
          m_appDesc' = IF result = "ESP_OK" THEN {"new_app_info"} ELSE nullopt
    /\ wpc' = "w383"
    /\ UNCHANGED <<flags, m_taskHandle, m_progress, m_totalSize, m_message,
                   m_finishedTs, params, now, aborted, ota_perform_err, callerVars,
                   device, assertsEnabled, history>>

\* lines 381-387: esp_https_ota_get_image_size()
WorkerSize ==
    /\ Running /\ wpc = "w383"
    /\ \E size \in ImageSizes :
          m_totalSize' = IF size > 0 THEN {size} ELSE m_totalSize
    /\ wpc' = "w396"
    /\ UNCHANGED <<flags, m_taskHandle, m_progress, m_message, m_appDesc,
                   m_finishedTs, params, now, aborted, ota_perform_err, callerVars,
                   device, assertsEnabled, history>>

\* lines 396-405: one esp_https_ota_perform() call; IN_PROGRESS updates
\* m_progress and goes on to the abort test, anything else leaves the loop
WorkerPerform ==
    /\ Running /\ wpc = "w396"
    /\ \E err \in PerformResults :
          /\ err = "ESP_ERR_HTTPS_OTA_IN_PROGRESS" => m_progress < MaxChunks
          /\ ota_perform_err' = err
          /\ IF err = "ESP_ERR_HTTPS_OTA_IN_PROGRESS"
             THEN m_progress' = m_progress + 1 /\ wpc' = "w407"
             ELSE m_progress' = m_progress /\ wpc' = "w419"
    /\ UNCHANGED <<flags, m_taskHandle, m_totalSize, m_message, m_appDesc,
                   m_finishedTs, params, now, aborted, callerVars, device,
                   assertsEnabled, history>>

\* lines 407-414: clearBits(ABORT_REQUEST_BIT) returns the bits set before
WorkerTestAbort ==
    /\ Running /\ wpc = "w407"
    /\ flags' = clearBits({ABORT_REQUEST_BIT})
    /\ IF ABORT_REQUEST_BIT \in flags
       THEN /\ aborted' = TRUE
            /\ m_message' = "Requested abort"
            /\ ota_perform_err' = "ESP_FAIL"
            /\ wpc' = "w419"
       ELSE /\ UNCHANGED <<aborted, m_message, ota_perform_err>>
            /\ wpc' = "w396"
    /\ abortStale' = FALSE
    /\ UNCHANGED <<m_taskHandle, m_progress, m_totalSize, m_appDesc, m_finishedTs,
                   params, now, callerVars, device, assertsEnabled, jobs, jobOpen,
                   abortOk, restartTs, outcome>>

\* setBits(REQUEST_VERIFYING_BIT) whatever the chunk loop gave
WorkerSetVerifyingAlways ==
    /\ Running /\ wpc = "w419"
    /\ flags' = setBits({REQUEST_VERIFYING_BIT})
    /\ wpc' = "w435"
    /\ UNCHANGED <<m_taskHandle, progressVars, m_finishedTs, params, now, aborted,
                   ota_perform_err, callerVars, device, assertsEnabled, history>>

\* lines 419-420: if (ota_perform_err == ESP_OK) setBits(REQUEST_VERIFYING_BIT)
WorkerSetVerifying ==
    /\ Running /\ wpc = "w419"
    /\ flags' = IF ota_perform_err = "ESP_OK"
                THEN setBits({REQUEST_VERIFYING_BIT}) ELSE flags
    /\ wpc' = "w435"
    /\ UNCHANGED <<m_taskHandle, progressVars, m_finishedTs, params, now, aborted,
                   ota_perform_err, callerVars, device, assertsEnabled, history>>

\* lines 448-462: the message the job leaves
JobMessage(finish_err) ==
    IF aborted THEN m_message
    ELSE IF ota_perform_err # "ESP_OK" THEN "esp_https_ota_perform() failed"
    ELSE IF finish_err # "ESP_OK" THEN "esp_https_ota_finish() failed"
    ELSE ""

\* lines 464-466: the job succeeded
JobSucceeded(finish_err) == ota_perform_err = "ESP_OK" /\ finish_err = "ESP_OK"

\* lines 434-466: esp_https_ota_finish(), the message, REQUEST_SUCCEEDED_BIT
WorkerFinish ==
    /\ Running /\ wpc = "w435"
    /\ \E ota_finish_err \in FinishResults :
          /\ m_message' = JobMessage(ota_finish_err)
          /\ flags' = IF JobSucceeded(ota_finish_err)
                      THEN setBits({REQUEST_SUCCEEDED_BIT}) ELSE flags
          /\ outcome' = IF aborted THEN "aborted"
                        ELSE IF JobSucceeded(ota_finish_err) THEN "succeeded"
                        ELSE "failed"
    /\ wpc' = "w312"
    /\ UNCHANGED <<m_taskHandle, m_progress, m_totalSize, m_appDesc, m_finishedTs,
                   params, now, aborted, ota_perform_err, callerVars, device,
                   assertsEnabled, jobs, jobOpen, abortOk, abortStale,
                   restartTs>>

\* helper2 clearing REQUEST_RUNNING and ABORT_REQUEST alone
CleanupBitsNoVerifying == {REQUEST_RUNNING_BIT, ABORT_REQUEST_BIT}

\* helper2 clearing REQUEST_SUCCEEDED as well
CleanupBitsWithSucceeded ==
    {REQUEST_RUNNING_BIT, REQUEST_VERIFYING_BIT, ABORT_REQUEST_BIT,
     REQUEST_SUCCEEDED_BIT}

\* line 312: the bits helper2 clears when the job's scope is left
CleanupBits == {REQUEST_RUNNING_BIT, REQUEST_VERIFYING_BIT, ABORT_REQUEST_BIT}

\* line 312: helper2, first call
WorkerCleanupClear ==
    /\ Running /\ wpc = "w312"
    /\ flags' = clearBits(CleanupBits)
    /\ wpc' = "w313"
    /\ abortStale' = (abortStale /\ ABORT_REQUEST_BIT \in flags')
    /\ UNCHANGED <<m_taskHandle, progressVars, m_finishedTs, params, now, aborted,
                   ota_perform_err, callerVars, device, assertsEnabled, jobs, jobOpen,
                   abortOk, restartTs, outcome>>

\* line 313: helper2, second call; the loop goes back to waitBits
WorkerCleanupFinished ==
    /\ Running /\ wpc = "w313"
    /\ flags' = setBits({REQUEST_FINISHED_BIT})
    /\ wpc' = "w293"
    /\ aborted' = FALSE /\ ota_perform_err' = "ESP_OK"   \* the locals' scope ends
    /\ UNCHANGED <<m_taskHandle, progressVars, m_finishedTs, params, now,
                   callerVars, device, assertsEnabled, history>>

Worker ==
    \/ WorkerStart \/ WorkerWait \/ WorkerAssert \/ WorkerSetRunning
    \/ WorkerBegin \/ WorkerDescribe \/ WorkerSize \/ WorkerPerform
    \/ WorkerTestAbort \/ WorkerSetVerifying \/ WorkerFinish
    \/ WorkerCleanupClear \/ WorkerCleanupFinished

(* ------------------- the caller's context: public methods -------------- *)
\* a public method returns val to the caller
Return(val) ==
    /\ ret' = [op |-> cop, val |-> val]
    /\ cpc' = "idle"
    /\ cop' = "none"
    /\ cargs' = NoArgs

\* startTask() is called
StartTaskCall ==
    /\ Running /\ cpc = "idle"
    /\ cop' = "startTask" /\ cpc' = "st54"
    /\ UNCHANGED <<flags, m_taskHandle, progressVars, m_finishedTs, params, now,
                   workerVars, cargs, ret, device, assertsEnabled, history>>

\* lines 54-68: the two checks, then clearBits() of all nine bits
StartTaskCheck ==
    /\ Running /\ cpc = "st54"
    /\ IF m_taskHandle
       THEN Return("ota task handle is not null") /\ flags' = flags
       ELSE IF TASK_RUNNING_BIT \in flags
       THEN Return("ota task already running") /\ flags' = flags
       ELSE /\ flags' = clearBits(AllBits)
            /\ cpc' = "st70"
            /\ UNCHANGED <<cop, cargs, ret>>
    /\ UNCHANGED <<m_taskHandle, progressVars, m_finishedTs, params, now,
                   workerVars, device, assertsEnabled, history>>

\* lines 70-85: espcpputils::createTask() creates the OTA task or fails
StartTaskCreate ==
    /\ Running /\ cpc = "st70"
    /\ \E pdPASS \in BOOLEAN :
          IF pdPASS
          THEN /\ m_taskHandle' = TRUE
               /\ wpc' = "w288"
               /\ cpc' = "st87"
               /\ UNCHANGED <<cop, cargs, ret>>
          ELSE /\ Return("failed creating ota task")
               /\ UNCHANGED <<m_taskHandle, wpc>>
    /\ UNCHANGED <<flags, progressVars, m_finishedTs, params, now, aborted,
                   ota_perform_err, device, assertsEnabled, history>>

\* startTask() returning after the first waitBits() whatever it saw
StartTaskWaitOnce ==
    /\ Running /\ cpc \in {"st87", "st94"}
    /\ IF cop = "trigger"
       THEN cpc' = "tr168" /\ UNCHANGED <<cop, cargs, ret>>
       ELSE Return("ok")
    /\ UNCHANGED <<flags, m_taskHandle, progressVars, m_finishedTs, params, now,
                   workerVars, device, assertsEnabled, history>>

\* lines 87-98: waitBits(TASK_RUNNING_BIT) for 1s, then without a timeout; when
\* trigger() made the call (line 164) it goes on at line 168
StartTaskWait ==
    /\ Running /\ cpc \in {"st87", "st94"}
    /\ IF TASK_RUNNING_BIT \in flags
       THEN IF cop = "trigger"
            THEN cpc' = "tr168" /\ UNCHANGED <<cop, cargs, ret>>
            ELSE Return("ok")
       ELSE /\ cpc = "st87"
            /\ cpc' = "st94"
            /\ UNCHANGED <<cop, cargs, ret>>
    /\ UNCHANGED <<flags, m_taskHandle, progressVars, m_finishedTs, params, now,
                   workerVars, device, assertsEnabled, history>>

\* endTask() without the test of TASK_RUNNING_BIT
EndTaskCallNoRunningTest ==
    /\ Running /\ cpc = "idle"
    /\ IF END_TASK_BIT \in flags
       THEN /\ ret' = [op |-> "endTask", val |-> "Another end request is already pending"]
            /\ UNCHANGED <<cpc, cop>>
       ELSE cop' = "endTask" /\ cpc' = "en113" /\ ret' = ret
    /\ UNCHANGED <<flags, m_taskHandle, progressVars, m_finishedTs, params, now,
                   workerVars, cargs, device, assertsEnabled, history>>

\* lines 103-111: endTask() is called; getBits() and the two checks
EndTaskCall ==
    /\ Running /\ cpc = "idle"
    /\ IF TASK_RUNNING_BIT \notin flags
       THEN ret' = [op |-> "endTask", val |-> "ok"] /\ UNCHANGED <<cpc, cop>>
       ELSE IF END_TASK_BIT \in flags
       THEN /\ ret' = [op |-> "endTask", val |-> "Another end request is already pending"]
            /\ UNCHANGED <<cpc, cop>>
       ELSE cop' = "endTask" /\ cpc' = "en113" /\ ret' = ret
    /\ UNCHANGED <<flags, m_taskHandle, progressVars, m_finishedTs, params, now,
                   workerVars, cargs, device, assertsEnabled, history>>

\* line 113: setBits(END_TASK_BIT)
EndTaskSet ==
    /\ Running /\ cpc = "en113"
    /\ flags' = setBits({END_TASK_BIT})
    /\ cpc' = "en115"
    /\ UNCHANGED <<m_taskHandle, progressVars, m_finishedTs, params, now,
                   workerVars, cop, cargs, ret, device, assertsEnabled, history>>

\* lines 115-131: waitBits(TASK_ENDED_BIT, true) for 1s, then without a timeout
EndTaskWait ==
    /\ Running /\ cpc \in {"en115", "en125"}
    /\ IF TASK_ENDED_BIT \in flags
       THEN flags' = clearBits({TASK_ENDED_BIT}) /\ Return("ok")
       ELSE /\ cpc = "en115"
            /\ cpc' = "en125"
            /\ UNCHANGED <<flags, cop, cargs, ret>>
    /\ UNCHANGED <<m_taskHandle, progressVars, m_finishedTs, params, now,
                   workerVars, device, assertsEnabled, history>>

\* status() with the START_REQUEST/REQUEST_RUNNING test moved before the
\* REQUEST_VERIFYING test
statusRunningFirst(bits) ==
    IF TASK_RUNNING_BIT \notin bits THEN "Idle"
    ELSE IF bits \cap {START_REQUEST_BIT, REQUEST_RUNNING_BIT} # {} THEN "Updating"
    ELSE IF REQUEST_VERIFYING_BIT \in bits THEN "Verifying"
    ELSE IF REQUEST_FINISHED_BIT \in bits
         THEN IF REQUEST_SUCCEEDED_BIT \in bits THEN "Succeeded" ELSE "Failed"
    ELSE "Idle"

\* lines 134-157: status()
status(bits) ==
    IF TASK_RUNNING_BIT \notin bits THEN "Idle"
    ELSE IF REQUEST_VERIFYING_BIT \in bits THEN "Verifying"
    ELSE IF bits \cap {START_REQUEST_BIT, REQUEST_RUNNING_BIT} # {} THEN "Updating"
    ELSE IF REQUEST_FINISHED_BIT \in bits
         THEN IF REQUEST_SUCCEEDED_BIT \in bits THEN "Succeeded" ELSE "Failed"
    ELSE "Idle"

\* status() is called
StatusCall ==
    /\ Running /\ cpc = "idle"
    /\ ret' = [op |-> "status", val |-> status(flags)]
    /\ UNCHANGED <<flags, m_taskHandle, progressVars, m_finishedTs, params, now,
                   workerVars, cpc, cop, cargs, device, assertsEnabled, history>>

\* lines 159-166: trigger() is called; it starts the OTA task when there is none
TriggerCall ==
    /\ Running /\ cpc = "idle"
    /\ jobs < MaxJobs
    /\ \E args \in TriggerArgs : cargs' = args
    /\ cop' = "trigger"
    /\ cpc' = IF m_taskHandle THEN "tr168" ELSE "st54"
    /\ UNCHANGED <<flags, m_taskHandle, progressVars, m_finishedTs, params, now,
                   workerVars, ret, device, assertsEnabled, history>>

\* lines 168-175: what trigger() does with its getBits() snapshot: an error to
\* return, "assert" when the assertion of line 175 fails, or "ok"
triggerCheck(bits) ==
    IF TASK_RUNNING_BIT \notin bits THEN "ota cloud task not running"
    ELSE IF bits \cap {START_REQUEST_BIT, REQUEST_RUNNING_BIT} # {}
         THEN "ota cloud already running"
    ELSE IF REQUEST_FINISHED_BIT \in bits
         THEN "ota cloud not fully finished, try again"
    ELSE IF REQUEST_SUCCEEDED_BIT \in bits THEN "assert"
    ELSE "ok"

\* lines 177-181: the checks on the url
urlCheck(url) ==
    IF url = "" THEN "empty firmware url"
    ELSE IF ~urlverify(url) THEN "could not verify firmware url"
    ELSE "ok"

\* lines 168-181: getBits(), the checks on the snapshot and on the url
TriggerCheck ==
    /\ Running /\ cpc = "tr168"
    /\ LET r == triggerCheck(flags)
           u == urlCheck(cargs.url)
       IN  IF r \notin {"ok", "assert"}
           THEN Return(r) /\ UNCHANGED <<device, assertsEnabled>>
           ELSE \E enabled \in (IF r = "assert" THEN BuildAsserts ELSE {"no"}) :
                   /\ assertsEnabled' = IF r = "assert" THEN enabled ELSE assertsEnabled
                   /\ IF enabled = "yes"
                      THEN device' = "aborted" /\ UNCHANGED <<cpc, cop, cargs, ret>>
                      ELSE /\ device' = device
                           /\ IF u = "ok"
                              THEN cpc' = "tr183" /\ UNCHANGED <<cop, cargs, ret>>
                              ELSE Return(u)
    /\ UNCHANGED <<flags, m_taskHandle, progressVars, m_finishedTs, params, now,
                   workerVars, history>>

\* lines 183-192: the job parameters are stored, then setBits(START_REQUEST_BIT)
TriggerStore ==
    /\ Running /\ cpc = "tr183"
    /\ m_url' = cargs.url
    /\ m_cert_pem' = cargs.cert_pem
    /\ m_use_global_ca' = cargs.use_global_ca
    /\ m_client_key' = cargs.client_key
    /\ m_client_cert' = cargs.client_cert
    /\ flags' = setBits({START_REQUEST_BIT})
    /\ Return("ok")
    /\ jobs' = jobs + 1
    /\ jobOpen' = TRUE
    /\ abortOk' = FALSE
    /\ abortStale' = IF wpc = "w293" THEN ABORT_REQUEST_BIT \in flags ELSE abortStale
    /\ UNCHANGED <<m_taskHandle, progressVars, m_finishedTs, now, workerVars,
                   device, assertsEnabled, restartTs, outcome>>

\* abort() testing START_REQUEST alone for a job in flight
abortCheckStartOnly(bits) ==
    IF START_REQUEST_BIT \notin bits THEN "no ota job is running!"
    ELSE IF ABORT_REQUEST_BIT \in bits THEN "an abort has already been requested!"
    ELSE "ok"

\* lines 197-200: what abort() does with its getBits() snapshot
abortCheck(bits) ==
    IF bits \cap {START_REQUEST_BIT, REQUEST_RUNNING_BIT} = {}
    THEN "no ota job is running!"
    ELSE IF ABORT_REQUEST_BIT \in bits THEN "an abort has already been requested!"
    ELSE "ok"

\* lines 195-200: abort() is called; getBits() and the two checks
AbortCall ==
    /\ Running /\ cpc = "idle"
    /\ IF abortCheck(flags) = "ok"
       THEN cop' = "abort" /\ cpc' = "ab202" /\ ret' = ret
       ELSE ret' = [op |-> "abort", val |-> abortCheck(flags)] /\ UNCHANGED <<cpc, cop>>
    /\ UNCHANGED <<flags, m_taskHandle, progressVars, m_finishedTs, params, now,
                   workerVars, cargs, device, assertsEnabled, history>>

\* lines 202-205: setBits(ABORT_REQUEST_BIT)
AbortSet ==
    /\ Running /\ cpc = "ab202"
    /\ flags' = setBits({ABORT_REQUEST_BIT})
    /\ Return("ok")
    /\ abortOk' = (abortOk \/ flags \cap JobBits # {})
    /\ UNCHANGED <<m_taskHandle, progressVars, m_finishedTs, params, now,
                   workerVars, device, assertsEnabled, jobs, jobOpen, abortStale,
                   restartTs, outcome>>

\* espasyncota.h:37  setTotalSize(totalSize) { m_totalSize = totalSize; }
\* The store takes no lock and tests no flag, so it can fall anywhere in a job;
\* it is not synchronised with the OTA task's own store (line 386), and of
\* the two the one that comes last stays.  The method returns nothing: ret
\* keeps the last value a method returned.
SetTotalSizeCall ==
    /\ Running /\ cpc = "idle"
    /\ \E totalSize \in TotalSizeArgs : m_totalSize' = {totalSize}
    /\ ret' = ret
    /\ UNCHANGED <<flags, m_taskHandle, m_progress, m_message, m_appDesc,
                   m_finishedTs, params, now, workerVars, cpc, cop, cargs, device,
                   assertsEnabled, history>>

\* line 248: the settle delay has passed since m_finishedTs
settled(ts) == ago(ts) > SettleDelay

\* lines 219-268: update() is called; getBits() and what follows from the
\* snapshot, up to esp_restart().  (m_lastInfo only paces the progress log.)
UpdateCall ==
    /\ Running /\ cpc = "idle"
    /\ IF flags \cap {START_REQUEST_BIT, REQUEST_RUNNING_BIT} # {}
          \/ REQUEST_FINISHED_BIT \notin flags
       THEN /\ ret' = [op |-> "update", val |-> "ok"]
            /\ UNCHANGED <<m_finishedTs, cpc, cop, device, restartTs>>
       ELSE IF m_finishedTs = nullopt
       THEN /\ m_finishedTs' = {now}
            /\ ret' = [op |-> "update", val |-> "ok"]
            /\ UNCHANGED <<cpc, cop, device, restartTs>>
       ELSE IF \E ts \in m_finishedTs : settled(ts)
       THEN /\ m_finishedTs' = nullopt
            /\ IF REQUEST_SUCCEEDED_BIT \in flags
               THEN /\ device' = "restarted"
                    /\ restartTs' = m_finishedTs
                    /\ UNCHANGED <<cpc, cop, ret>>
               ELSE /\ cop' = "update" /\ cpc' = "up255"
                    /\ UNCHANGED <<device, ret, restartTs>>
       ELSE /\ ret' = [op |-> "update", val |-> "ok"]
            /\ UNCHANGED <<m_finishedTs, cpc, cop, device, restartTs>>
    /\ UNCHANGED <<flags, m_taskHandle, progressVars, params, now, workerVars,
                   cargs, assertsEnabled, jobs, jobOpen, abortOk, abortStale,
                   outcome>>

\* lines 255-257: clearBits(REQUEST_FINISHED_BIT|REQUEST_SUCCEEDED_BIT), m_appDesc
UpdateClear ==
    /\ Running /\ cpc = "up255"
    /\ flags' = clearBits({REQUEST_FINISHED_BIT, REQUEST_SUCCEEDED_BIT})
    /\ m_appDesc' = nullopt
    /\ Return("ok")
    /\ jobOpen' = FALSE
    /\ UNCHANGED <<m_taskHandle, m_progress, m_totalSize, m_message, m_finishedTs,
                   params, now, workerVars, device, assertsEnabled, jobs, abortOk,
                   abortStale, restartTs, outcome>>

\* the steps inside a public method that was called
CallerStep ==
    \/ StartTaskCheck \/ StartTaskCreate \/ StartTaskWait
    \/ EndTaskSet \/ EndTaskWait
    \/ TriggerCheck \/ TriggerStore
    \/ AbortSet \/ UpdateClear

\* the caller calls a public method
CallerCall ==
    \/ StartTaskCall \/ EndTaskCall \/ StatusCall \/ TriggerCall \/ AbortCall
    \/ UpdateCall \/ SetTotalSizeCall

\* espchrono::millis_clock advances
\* (the clock is read by update() alone, and only against m_finishedTs: a tick
\* while m_finishedTs is absent changes nothing a method can tell, and the model
\* takes none)
Tick ==
    /\ Running /\ now < MaxTime
    /\ m_finishedTs # nullopt
    /\ now' = now + 1
    /\ UNCHANGED <<flags, m_taskHandle, progressVars, m_finishedTs, params,
                   workerVars, callerVars, device, assertsEnabled, history>>

Next == Worker \/ CallerStep \/ CallerCall \/ Tick

Spec == Init /\ [][Next]_vars

\* The OTA task is a FreeRTOS task of priority 10: it runs whenever it is ready.
\* The caller goes on inside the method it called; it need not call again.
FairSpec == Spec /\ WF_vars(Worker) /\ WF_vars(CallerStep)

(* ------------------------------- claims -------------------------------- *)

\* C1: from the moment a trigger() call is accepted until update() has cleared
\* REQUEST_FINISHED for that job, no further trigger() call is accepted and the
\* stored job parameters are not overwritten.
C1_TriggerRejectedInFlight == [][jobOpen => (jobs' = jobs /\ params' = params)]_vars

\* C2: when a job for which abort() returned success while it was in flight has
\* reached REQUEST_FINISHED, REQUEST_SUCCEEDED is clear.
C2_AbortedJobNeverSucceeds ==
    (abortOk /\ wpc = "w293" /\ REQUEST_FINISHED_BIT \in flags)
        => REQUEST_SUCCEEDED_BIT \notin flags

\* C3: an endTask() call that found TASK_RUNNING set and END_TASK clear, and
\* so sets END_TASK, eventually returns success, the OTA task having left its
\* loop and cleared TASK_RUNNING.
C3_EndTaskReturns ==
    (cpc = "en113") ~> (ret = [op |-> "endTask", val |-> "ok"]
                        /\ TASK_RUNNING_BIT \notin flags)

\* C4: every accepted trigger() (it sets START_REQUEST) is eventually followed
\* by REQUEST_FINISHED being set.
C4_TriggerReachesFinished ==
    (START_REQUEST_BIT \in flags) ~> (REQUEST_FINISHED_BIT \in flags)

\* C5: from the OTA task setting REQUEST_FINISHED until update() clears it, a
\* status() call reports the terminal outcome, Succeeded or Failed.
C5_TerminalStatusUntilRecycled ==
    (REQUEST_FINISHED_BIT \in flags /\ cpc = "idle")
        => status(flags) \in {"Succeeded", "Failed"}

\* C6: the restart is requested only on a snapshot with REQUEST_FINISHED and
\* REQUEST_SUCCEEDED set and START_REQUEST and REQUEST_RUNNING clear, after the
\* settle delay has passed since m_finishedTs, and never when the job the OTA
\* task ran last failed or was aborted.
C6_RestartOnlyAfterSuccess ==
    device = "restarted" =>
        /\ {REQUEST_FINISHED_BIT, REQUEST_SUCCEEDED_BIT} \subseteq flags
        /\ flags \cap {START_REQUEST_BIT, REQUEST_RUNNING_BIT} = {}
        /\ restartTs # nullopt
        /\ \A ts \in restartTs : now - ts > SettleDelay
        /\ cpc = "idle"
        /\ outcome = "succeeded"

\* status() applied to every combination of the nine flags
StatusInit == flags \in SUBSET AllBits /\ InitMembers

StatusNext == StatusCall

StatusSpec == StatusInit /\ [][StatusNext]_vars

\* C7: status() returns Idle if TASK_RUNNING is clear, else Verifying if
\* REQUEST_VERIFYING is set, else Updating if START_REQUEST or REQUEST_RUNNING
\* is set, else Succeeded if REQUEST_FINISHED and REQUEST_SUCCEEDED are set,
\* else Failed if REQUEST_FINISHED is set, else Idle; it never returns NotReady
\* and changes no flag and no other state.
C7_StatusTable ==
    [][StatusCall =>
        LET up == TASK_RUNNING_BIT \in flags
            ver == REQUEST_VERIFYING_BIT \in flags
            job == START_REQUEST_BIT \in flags \/ REQUEST_RUNNING_BIT \in flags
            fin == REQUEST_FINISHED_BIT \in flags
            suc == REQUEST_SUCCEEDED_BIT \in flags
            v == ret'.val
        IN  /\ ret'.op = "status"
            /\ v \in OtaCloudUpdateStatus \ {"NotReady"}
            /\ (v = "Verifying") <=> (up /\ ver)
            /\ (v = "Updating") <=> (up /\ ~ver /\ job)
            /\ (v = "Succeeded") <=> (up /\ ~ver /\ ~job /\ fin /\ suc)
            /\ (v = "Failed") <=> (up /\ ~ver /\ ~job /\ fin /\ ~suc)
            /\ (v = "Idle") <=> (~up \/ (~ver /\ ~job /\ ~fin))
            /\ UNCHANGED <<flags, m_taskHandle, progressVars, m_finishedTs, params,
                           now, workerVars, cpc, cop, cargs, device, assertsEnabled,
                           history>>
    ]_vars

\* status() was called with REQUEST_RUNNING and REQUEST_VERIFYING both set
C7_Witness ==
    /\ ret = [op |-> "status", val |-> "Verifying"]
    /\ {TASK_RUNNING_BIT, REQUEST_RUNNING_BIT, REQUEST_VERIFYING_BIT,
        REQUEST_FINISHED_BIT} \subseteq flags

\* C8: at most one of START_REQUEST, REQUEST_RUNNING and REQUEST_VERIFYING is set.
C8_AtMostOneJobPhaseBit ==
    Cardinality(flags \cap {START_REQUEST_BIT, REQUEST_RUNNING_BIT,
                            REQUEST_VERIFYING_BIT}) <= 1

\* C8, amended: REQUEST_VERIFYING is set only while REQUEST_RUNNING is set.
C8_VerifyingOnlyWhileRunning ==
    REQUEST_VERIFYING_BIT \in flags => REQUEST_RUNNING_BIT \in flags

\* the OTA task is in esp_https_ota_finish() with both bits set
C8_Witness ==
    /\ wpc = "w435"
    /\ {REQUEST_RUNNING_BIT, REQUEST_VERIFYING_BIT} \subseteq flags

\* C9: REQUEST_FINISHED is never set together with START_REQUEST,
\* REQUEST_RUNNING or REQUEST_VERIFYING.
C9_FinishedExcludesJobPhaseBits ==
    REQUEST_FINISHED_BIT \in flags =>
        flags \cap {START_REQUEST_BIT, REQUEST_RUNNING_BIT, REQUEST_VERIFYING_BIT} = {}

\* C10: REQUEST_SUCCEEDED set implies REQUEST_FINISHED set.
C10_SucceededImpliesFinished ==
    REQUEST_SUCCEEDED_BIT \in flags => REQUEST_FINISHED_BIT \in flags

\* C11: ABORT_REQUEST is set only while START_REQUEST or REQUEST_RUNNING is set,
\* and never together with REQUEST_FINISHED.
C11_AbortOnlyWhileJobInFlight ==
    ABORT_REQUEST_BIT \in flags =>
        /\ flags \cap {START_REQUEST_BIT, REQUEST_RUNNING_BIT} # {}
        /\ REQUEST_FINISHED_BIT \notin flags

\* C12: abort() returns the error "no ota job is running!" when START_REQUEST
\* and REQUEST_RUNNING are both clear in its snapshot, returns an error when
\* ABORT_REQUEST is set in it, and changes no flag in both cases; otherwise it
\* sets ABORT_REQUEST and no other flag and returns success.
C12_AbortContract ==
    [][/\ AbortCall =>
            LET job == flags \cap {START_REQUEST_BIT, REQUEST_RUNNING_BIT} # {}
                pending == ABORT_REQUEST_BIT \in flags
            IN  /\ flags' = flags
                /\ ~job => ret' = [op |-> "abort", val |-> "no ota job is running!"]
                /\ (job /\ pending) => (ret'.op = "abort" /\ ret'.val # "ok")
                /\ (job /\ ~pending) => (cpc' = "ab202" /\ ret' = ret)
       /\ AbortSet =>
            /\ flags' = flags \cup {ABORT_REQUEST_BIT}
            /\ ret' = [op |-> "abort", val |-> "ok"]
    ]_vars

\* abort() returned success during the chunk loop and ABORT_REQUEST is set
C12_Witness ==
    /\ ret = [op |-> "abort", val |-> "ok"]
    /\ wpc = "w407"
    /\ {REQUEST_RUNNING_BIT, ABORT_REQUEST_BIT} \subseteq flags
    /\ START_REQUEST_BIT \notin flags

\* C13: a trigger() call with an empty url that gets past startTask() returns
\* the error "empty firmware url", and no step of the call changes a flag, the
\* start of the OTA task the call makes when there is none included.
C13_EmptyUrlChangesNoFlag ==
    [][(cop = "trigger" /\ cargs.url = "") =>
            /\ (CallerStep \/ WorkerStart) => flags' = flags
            /\ (cpc = "tr168" /\ cpc' = "idle") =>
                    ret' = [op |-> "trigger", val |-> "empty firmware url"]
    ]_vars

\* C14: trigger() with a url that passes the url checks is accepted exactly
\* when its snapshot has TASK_RUNNING set and START_REQUEST, REQUEST_RUNNING and
\* REQUEST_FINISHED clear; accepted, it stores the job parameters, sets
\* START_REQUEST and no other flag and returns success; rejected, it returns an
\* error and changes neither the job parameters nor a flag.
C14_TriggerAcceptance ==
    [][/\ (TriggerCheck /\ urlCheck(cargs.url) = "ok") =>
            LET accept == /\ TASK_RUNNING_BIT \in flags
                          /\ flags \cap {START_REQUEST_BIT, REQUEST_RUNNING_BIT,
                                         REQUEST_FINISHED_BIT} = {}
            IN  /\ flags' = flags /\ params' = params
                /\ accept => cpc' = "tr183"
                /\ ~accept => (cpc' = "idle" /\ ret'.op = "trigger" /\ ret'.val # "ok")
       /\ TriggerStore =>
            /\ params' = <<cargs.url, cargs.cert_pem, cargs.use_global_ca,
                           cargs.client_key, cargs.client_cert>>
            /\ flags' = flags \cup {START_REQUEST_BIT}
            /\ ret' = [op |-> "trigger", val |-> "ok"]
    ]_vars

\* C15: with TASK_RUNNING clear, endTask() returns success and changes no flag
\* and no other state; a second call in a row does the same.
C15_EndTaskWithoutTask ==
    [][(EndTaskCall /\ TASK_RUNNING_BIT \notin flags) =>
            /\ ret' = [op |-> "endTask", val |-> "ok"]
            /\ UNCHANGED <<flags, m_taskHandle, progressVars, m_finishedTs, params,
                           now, workerVars, cpc, cop, cargs, device, assertsEnabled,
                           history>>
    ]_vars

\* endTask() returned success with no OTA task
C15_Witness ==
    /\ ret = [op |-> "endTask", val |-> "ok"]
    /\ TASK_RUNNING_BIT \notin flags /\ ~m_taskHandle
    /\ cpc = "idle"

\* C16: startTask() called while an OTA task is alive (m_taskHandle set or
\* TASK_RUNNING set) returns an error and changes no flag; otherwise it clears
\* all flags and creates the OTA task, and it returns success only in a state
\* where the OTA task exists and has set TASK_RUNNING.
C16_StartTaskContract ==
    [][/\ StartTaskCheck =>
            IF m_taskHandle \/ TASK_RUNNING_BIT \in flags
            THEN /\ flags' = flags
                 /\ cpc' = "idle" /\ ret'.op = cop /\ ret'.val # "ok"
                 /\ UNCHANGED <<m_taskHandle, wpc>>
            ELSE flags' = {} /\ cpc' = "st70"
       /\ (StartTaskCreate /\ cpc' # "idle") => (m_taskHandle' /\ wpc' = "w288")
       /\ (cop = "startTask" /\ cpc' = "idle" /\ ret'.val = "ok") =>
            (TASK_RUNNING_BIT \in flags' /\ m_taskHandle' /\ wpc' # "none")
       /\ (cop = "trigger" /\ cpc' = "tr168") => TASK_RUNNING_BIT \in flags'
    ]_vars

\* startTask() returned an error while a job was running, and the job's flag
\* is still set
C16_Witness ==
    /\ ret = [op |-> "startTask", val |-> "ota task handle is not null"]
    /\ {TASK_RUNNING_BIT, REQUEST_RUNNING_BIT} \subseteq flags
    /\ cpc = "idle"

\* C17: when update() recycles a job that did not succeed, afterwards
\* REQUEST_FINISHED and REQUEST_SUCCEEDED are clear, status() reports Idle,
\* m_finishedTs is absent, and m_message and m_appDesc are cleared.
C17_RecycleClearsJob ==
    [][UpdateClear =>
            /\ flags' \cap {REQUEST_FINISHED_BIT, REQUEST_SUCCEEDED_BIT} = {}
            /\ status(flags') = "Idle"
            /\ m_finishedTs' = nullopt
            /\ m_message' = ""
            /\ m_appDesc' = nullopt
    ]_vars

\* update() keeps being called and the clock keeps advancing
LiveSpec ==
    Spec /\ WF_vars(Worker) /\ WF_vars(CallerStep) /\ SF_vars(UpdateCall)
         /\ WF_vars(Tick)

\* C18: when the caller keeps returning from its calls, every job that ended
\* without success (with the clock leaving room for the settle delay) is
\* followed by a state in which status() is Idle, a trigger() with a valid url
\* is accepted and the OTA task waits for it.
C18_FailedJobRecycled ==
    ([]<>(cpc = "idle")) =>
        ((/\ REQUEST_FINISHED_BIT \in flags /\ REQUEST_SUCCEEDED_BIT \notin flags
          /\ wpc = "w293" /\ now + SettleDelay < MaxTime)
         ~> (/\ status(flags) = "Idle" /\ triggerCheck(flags) = "ok"
             /\ wpc = "w293" /\ Running))

\* C19: REQUEST_RUNNING, REQUEST_VERIFYING, REQUEST_FINISHED and
\* REQUEST_SUCCEEDED are left unchanged by every step of a public method, and
\* START_REQUEST, ABORT_REQUEST and END_TASK by every step of the OTA task.
C19_SingleWriter ==
    [][/\ (CallerStep \/ CallerCall) =>
            \A b \in {REQUEST_RUNNING_BIT, REQUEST_VERIFYING_BIT,
                      REQUEST_FINISHED_BIT, REQUEST_SUCCEEDED_BIT} :
                (b \in flags') <=> (b \in flags)
       /\ Worker =>
            \A b \in {START_REQUEST_BIT, ABORT_REQUEST_BIT, END_TASK_BIT} :
                (b \in flags') <=> (b \in flags)
    ]_vars

\* C19, amended: every flag is set by one context alone, REQUEST_RUNNING,
\* REQUEST_VERIFYING, REQUEST_FINISHED, REQUEST_SUCCEEDED and TASK_RUNNING by
\* the OTA task and START_REQUEST, ABORT_REQUEST and END_TASK by the public
\* methods; the OTA task clears START_REQUEST and ABORT_REQUEST besides its own
\* REQUEST_RUNNING and REQUEST_VERIFYING, and the public methods clear
\* REQUEST_FINISHED and REQUEST_SUCCEEDED and nothing else that is set.
C19_SingleSetter ==
    [][/\ (CallerStep \/ CallerCall) =>
            /\ (flags' \ flags) \subseteq
                   {START_REQUEST_BIT, ABORT_REQUEST_BIT, END_TASK_BIT}
            /\ (flags \ flags') \subseteq
                   {REQUEST_FINISHED_BIT, REQUEST_SUCCEEDED_BIT}
       /\ Worker =>
            /\ (flags' \ flags) \subseteq
                   {TASK_RUNNING_BIT, REQUEST_RUNNING_BIT, REQUEST_VERIFYING_BIT,
                    REQUEST_FINISHED_BIT, REQUEST_SUCCEEDED_BIT}
            /\ (flags \ flags') \subseteq
                   {START_REQUEST_BIT, ABORT_REQUEST_BIT, REQUEST_RUNNING_BIT,
                    REQUEST_VERIFYING_BIT}
    ]_vars

\* the OTA task cleared ABORT_REQUEST in the chunk loop, set REQUEST_FINISHED,
\* and update() cleared REQUEST_FINISHED
C19_Witness ==
    /\ m_message = "Requested abort" /\ outcome = "aborted"
    /\ ret = [op |-> "update", val |-> "ok"]
    /\ jobs = 1 /\ ~jobOpen
    /\ flags = {TASK_RUNNING_BIT}

\* C20: the OTA task sets REQUEST_FINISHED once per job, it being clear before,
\* and at the moment it becomes set REQUEST_RUNNING, REQUEST_VERIFYING and
\* ABORT_REQUEST are all clear.
C20_FinishedSetOnceAndClean ==
    [][WorkerCleanupFinished =>
            /\ REQUEST_FINISHED_BIT \notin flags
            /\ flags' \cap {REQUEST_RUNNING_BIT, REQUEST_VERIFYING_BIT,
                            ABORT_REQUEST_BIT} = {}
    ]_vars

\* C21: a job ends (REQUEST_FINISHED becomes set) with REQUEST_SUCCEEDED set
\* if and only if begin gave a valid handle, the chunk loop ended with ESP_OK
\* and no abort, and finish returned ESP_OK, whatever the describe and size
\* phases gave.
C21_SucceededIffJobSucceeded ==
    [][WorkerCleanupFinished =>
            ((REQUEST_SUCCEEDED_BIT \in flags') <=> (outcome = "succeeded"))
    ]_vars

\* C22: once the OTA task's clearBits(ABORT_REQUEST_BIT) found the bit set, the
\* chunk loop is left, REQUEST_VERIFYING is not set for the job, and the job
\* reaches REQUEST_FINISHED with the message "Requested abort" and with
\* REQUEST_SUCCEEDED clear, whatever finish() returns.
C22_AbortedJobOutcome ==
    [][/\ (WorkerTestAbort /\ ABORT_REQUEST_BIT \in flags) => wpc' = "w419"
       /\ aborted' =>
            /\ REQUEST_VERIFYING_BIT \notin flags'
            /\ m_message' = "Requested abort"
            /\ wpc' \in {"w419", "w435", "w312", "w313"}
       /\ (WorkerCleanupFinished /\ aborted) =>
            /\ REQUEST_FINISHED_BIT \in flags'
            /\ REQUEST_SUCCEEDED_BIT \notin flags'
    ]_vars

\* C23: esp_https_ota_finish() is invoked only after a chunk loop that ended
\* with ESP_OK and no abort, with REQUEST_VERIFYING set before the invocation.
C23_FinishOnlyAfterSuccess ==
    [][WorkerFinish =>
            /\ ota_perform_err = "ESP_OK" /\ ~aborted
            /\ REQUEST_VERIFYING_BIT \in flags
    ]_vars

\* C23, amended: esp_https_ota_finish() is invoked in every job that got a
\* valid handle from begin, after the chunk loop and whatever it gave (the job
\* is left through a failed begin or through finish, nowhere else), and
\* REQUEST_VERIFYING is set at the invocation exactly when the chunk loop ended
\* with ESP_OK and no abort.
C23_FinishAlwaysInvoked ==
    [][/\ WorkerFinish =>
            /\ (REQUEST_VERIFYING_BIT \in flags)
                   <=> (ota_perform_err = "ESP_OK" /\ ~aborted)
            /\ ota_perform_err # "ESP_ERR_HTTPS_OTA_IN_PROGRESS"
       /\ (wpc' = "w312" /\ wpc # "w312") => (WorkerBegin \/ WorkerFinish)
       /\ (wpc = "w419" /\ wpc' # wpc) => wpc' = "w435"
    ]_vars

\* esp_https_ota_finish() was invoked after a chunk loop that failed
C23_Witness ==
    /\ wpc = "w312"
    /\ ota_perform_err = "ESP_FAIL" /\ ~aborted
    /\ m_message = "esp_https_ota_perform() failed"
    /\ REQUEST_RUNNING_BIT \in flags /\ REQUEST_VERIFYING_BIT \notin flags

\* C24: when the OTA task enters Running for a job (lines 307-309), m_progress
\* is 0, m_totalSize is unknown, m_message is empty and m_appDesc is absent;
\* and m_totalSize stays unknown through a job whose size phase reports a
\* non-positive value.
C24_ProgressResetAtJobStart ==
    [][/\ WorkerSetRunning =>
            /\ m_progress' = 0
            /\ m_totalSize' = nullopt
            /\ m_message' = ""
            /\ m_appDesc' = nullopt
       /\ (WorkerSize /\ m_totalSize' = m_totalSize) => m_totalSize' = nullopt
    ]_vars

\* C25: where the OTA task reads the flags again after its waitBits() returned
\* (line 299), START_REQUEST, REQUEST_RUNNING, REQUEST_VERIFYING,
\* REQUEST_FINISHED and REQUEST_SUCCEEDED are all clear.
C25_WorkerAssertionsHold ==
    (wpc = "w299" /\ Running) => flags \cap WorkerAssertBits = {}

\* C26: where trigger() takes its snapshot (line 168), TASK_RUNNING set and
\* START_REQUEST, REQUEST_RUNNING and REQUEST_FINISHED clear imply
\* REQUEST_SUCCEEDED clear.
C26_TriggerAssertionHolds ==
    (cpc = "tr168" /\ Running) => triggerCheck(flags) # "assert"

\* C28: from the return of an accepted trigger() until update() recycles the
\* job, status() does not report Idle.
C28_NoIdleWhileJobOpen ==
    (jobOpen /\ cpc = "idle" /\ Running) => status(flags) # "Idle"

\* C27: an abort() call affects only the job that was in flight when it was
\* called: the OTA task's test of ABORT_REQUEST never finds, and abort() never
\* refuses as "already requested", an ABORT_REQUEST that has been set since
\* before the job's trigger() was accepted.
C27_AbortStaysWithItsJob ==
    [][/\ (WorkerTestAbort /\ ABORT_REQUEST_BIT \in flags) => ~abortStale
       /\ (AbortCall /\ abortCheck(flags) = "an abort has already been requested!")
              => ~abortStale
    ]_vars

=============================================================================
